---- MODULE Spec2Model ----
(***************************************************************************)
(* Model of the ticket randomizer (src/main.rs): the form state of         *)
(* RandomizerApp, one egui frame of update() per interface action, and the *)
(* worker thread spawned by start_processing, which runs build_csv and     *)
(* gen_token and sends one status string to the inbox.                     *)
(*                                                                         *)
(* A String is a sequence of one-character strings.  An Option<String> is  *)
(* a sequence of length 0 (None) or 1 (Some).  The output file is kept row *)
(* by row: each row is the text csv's write_record produces for a record.  *)
(***************************************************************************)
EXTENDS Integers, Sequences, FiniteSets, TLC

(***************************************************************************)
(* Bounds of the model.  MaxTypedCount and MaxTypedLength bound the values *)
(* typed into the form where the whole interface is explored; MaxCount and *)
(* MaxLength bound the requests of the runs explored on their own.         *)
(***************************************************************************)
MaxTypedCount == 1

MaxTypedLength == 1

MaxCount == 2

MaxLength == 2

MaxAlphabet == 2

MaxThreads == 2

(***************************************************************************)
(* The class strings, character by character (main.rs lines 8-11).         *)
(***************************************************************************)
CAPTIALS ==
    <<"A", "B", "C", "D", "E", "F", "G", "H", "I", "J", "K", "L", "M", "N", "O", "P", "Q", "R", "S", "T", "U", "V", "Q", "X", "Y", "Z">>

LOWERS ==
    <<"a", "b", "c", "d", "e", "f", "g", "h", "i", "j", "k", "l", "m", "n", "o", "p", "q", "r", "s", "t", "u", "v", "q", "x", "y", "z">>

NUMBERS ==
    <<"0", "1", "2", "3", "4", "5", "6", "7", "8", "9">>

SPECIALS ==
    <<",", ".", ";", ":", "\"", "'", "!", "%", "#">>

Range(s) == {s[k] : k \in 1..Len(s)}

(***************************************************************************)
(* Inputs of the interface, drawn from small sets.                         *)
(***************************************************************************)
\* An exclusion string that lists every class character outside `keep`.
ExcludeAllBut(keep) ==
    SelectSeq(CAPTIALS \o LOWERS \o NUMBERS \o SPECIALS, LAMBDA c : c \notin keep)

RejectedInputs == {<<>>, ExcludeAllBut({"Q", "0", "1"})}

CountInputs == 0..MaxTypedCount

LengthInputs == 0..MaxTypedLength

\* The destinations the save dialog can return: a file that can be created
\* (unless the create fails for a passing reason) and one in a place where no
\* file can be created.
Paths == {"a.csv", "/b.csv"}

WritablePaths == {"a.csv"}

None == <<>>

Some(x) == <<x>>

VARIABLES
    capital_letters, lowercase_letters, numbers, specials, rejected_chars,
    ticket_count, ticket_length, file_path,
    is_processing, inbox, last_thread_message,
    threads, files

form == <<capital_letters, lowercase_letters, numbers, specials, rejected_chars,
          ticket_count, ticket_length, file_path>>

vars == <<capital_letters, lowercase_letters, numbers, specials, rejected_chars,
          ticket_count, ticket_length, file_path,
          is_processing, inbox, last_thread_message, threads, files>>

(***************************************************************************)
(* build_character_set (lines 47-67).                                      *)
(***************************************************************************)
\* A replace that removes nothing.
replace_nothing(buf, pattern) == buf

\* str::replace with a &[char] pattern and "": every character that equals
\* one of the pattern's characters is removed, the others keep their order.
replace(buf, pattern) ==
    LET matched == Range(pattern)
    IN  SelectSeq(buf, LAMBDA c : c \notin matched)

\* A character set that puts the digits before the letters.
build_character_set_digits_first(cap, low, num, spe, rejected) ==
    LET buf == (IF num THEN NUMBERS ELSE <<>>)
               \o (IF cap THEN CAPTIALS ELSE <<>>)
               \o (IF low THEN LOWERS ELSE <<>>)
               \o (IF spe THEN SPECIALS ELSE <<>>)
    IN  replace(buf, rejected)

build_character_set(cap, low, num, spe, rejected) ==
    LET buf == (IF cap THEN CAPTIALS ELSE <<>>)
               \o (IF low THEN LOWERS ELSE <<>>)
               \o (IF num THEN NUMBERS ELSE <<>>)
               \o (IF spe THEN SPECIALS ELSE <<>>)
    IN  replace(buf, rejected)

CurrentCharacterSet ==
    build_character_set(capital_letters, lowercase_letters, numbers, specials,
                        rejected_chars)

(***************************************************************************)
(* Status strings (lines 96, 110, 123).                                    *)
(***************************************************************************)
SuccessMessage == <<"Successfully wrote to CSV">>

CreateFailedMessage(path) == <<"Failed to create file", path>>

WriteFailedMessage == <<"Failed to write to file">>

(***************************************************************************)
(* The worker thread's locals.  `tokens` is the history of the tokens      *)
(* gen_token has returned, in order; the code keeps only `set`.  `retried` *)
(* says that the running call of gen_token is a recursive one.             *)
(***************************************************************************)
IdleThread ==
    [pc |-> "idle", character_set |-> <<>>, file_path |-> "", token_count |-> 0,
     token_length |-> 0, i |-> 0, set |-> {}, tokens |-> <<>>, buf |-> <<>>,
     retried |-> FALSE, csv_writer |-> <<>>, result |-> <<>>]

NoFile == [exists |-> FALSE, rows |-> <<>>]

Init ==
    /\ capital_letters = FALSE
    /\ lowercase_letters = FALSE
    /\ numbers = FALSE
    /\ specials = FALSE
    /\ rejected_chars = <<>>
    /\ ticket_count = 0
    /\ ticket_length = 0
    /\ file_path = None
    /\ is_processing = FALSE
    /\ inbox = <<>>
    /\ last_thread_message = <<>>
    /\ threads = [t \in 1..MaxThreads |-> IdleThread]
    /\ files = [p \in Paths |-> NoFile]


(***************************************************************************)
(* One frame of update() (lines 152-228): at most one widget reports an    *)
(* interaction, then the inbox is read (lines 222-225).                    *)
(***************************************************************************)
\* A read of the inbox that ends the processing state also when the inbox
\* is empty.
InboxRead_resetting(processing) ==
    /\ inbox' = <<>>
    /\ is_processing' = FALSE
    /\ last_thread_message' =
           IF inbox # <<>> THEN inbox[Len(inbox)] ELSE last_thread_message

\* inbox.read(ui).last(): the inbox is drained and its last message, if any,
\* becomes the status line and ends the processing state.  `processing` is
\* is_processing as the frame's widget handlers left it.
InboxRead(processing) ==
    /\ inbox' = <<>>
    /\ IF inbox # <<>>
       THEN /\ last_thread_message' = inbox[Len(inbox)]
            /\ is_processing' = FALSE
       ELSE /\ last_thread_message' = last_thread_message
            /\ is_processing' = processing

\* The model explores the forms whose character set has at most MaxAlphabet
\* characters.
WithinBounds(cap, low, num, spe, rejected) ==
    Len(build_character_set(cap, low, num, spe, rejected)) <= MaxAlphabet

ToggleCapitalLetters ==
    /\ WithinBounds(~capital_letters, lowercase_letters, numbers, specials, rejected_chars)
    /\ capital_letters' = ~capital_letters
    /\ UNCHANGED <<lowercase_letters, numbers, specials, rejected_chars,
                   ticket_count, ticket_length, file_path, threads, files>>
    /\ InboxRead(is_processing)

ToggleLowercaseLetters ==
    /\ WithinBounds(capital_letters, ~lowercase_letters, numbers, specials, rejected_chars)
    /\ lowercase_letters' = ~lowercase_letters
    /\ UNCHANGED <<capital_letters, numbers, specials, rejected_chars,
                   ticket_count, ticket_length, file_path, threads, files>>
    /\ InboxRead(is_processing)

ToggleNumbers ==
    /\ WithinBounds(capital_letters, lowercase_letters, ~numbers, specials, rejected_chars)
    /\ numbers' = ~numbers
    /\ UNCHANGED <<capital_letters, lowercase_letters, specials, rejected_chars,
                   ticket_count, ticket_length, file_path, threads, files>>
    /\ InboxRead(is_processing)

ToggleSpecials ==
    /\ WithinBounds(capital_letters, lowercase_letters, numbers, ~specials, rejected_chars)
    /\ specials' = ~specials
    /\ UNCHANGED <<capital_letters, lowercase_letters, numbers, rejected_chars,
                   ticket_count, ticket_length, file_path, threads, files>>
    /\ InboxRead(is_processing)

EditRejectedChars ==
    \E r \in RejectedInputs :
        /\ WithinBounds(capital_letters, lowercase_letters, numbers, specials, r)
        /\ rejected_chars' = r
        /\ UNCHANGED <<capital_letters, lowercase_letters, numbers, specials,
                       ticket_count, ticket_length, file_path, threads, files>>
        /\ InboxRead(is_processing)

\* The count field loses focus with text that parses as usize (lines 173-174);
\* text that does not parse leaves ticket_count as it is.
EditTicketCount ==
    \E n \in CountInputs :
        /\ ticket_count' = n
        /\ UNCHANGED <<capital_letters, lowercase_letters, numbers, specials,
                       rejected_chars, ticket_length, file_path, threads, files>>
        /\ InboxRead(is_processing)

EditTicketLength ==
    \E n \in LengthInputs :
        /\ ticket_length' = n
        /\ UNCHANGED <<capital_letters, lowercase_letters, numbers, specials,
                       rejected_chars, ticket_count, file_path, threads, files>>
        /\ InboxRead(is_processing)

\* The save dialog returns a path (lines 197-202); a cancelled dialog leaves
\* file_path as it is.
SelectDestination ==
    \E p \in Paths :
        /\ file_path' = Some(p)
        /\ UNCHANGED <<capital_letters, lowercase_letters, numbers, specials,
                       rejected_chars, ticket_count, ticket_length, threads, files>>
        /\ InboxRead(is_processing)

(***************************************************************************)
(* start_processing (lines 69-100).                                        *)
(***************************************************************************)
\* start_refused without the check of ticket_count.
start_refused_ignoring_count(processing, path, character_set, length, count) ==
    \/ processing
    \/ path = None
    \/ character_set = <<>>
    \/ length = 0

\* start_refused without the check of is_processing.
start_refused_ignoring_processing(processing, path, character_set, length, count) ==
    \/ path = None
    \/ character_set = <<>>
    \/ length = 0 \/ count = 0

\* The early returns of lines 70-85.
start_refused(processing, path, character_set, length, count) ==
    \/ processing
    \/ path = None
    \/ character_set = <<>>
    \/ length = 0 \/ count = 0

\* start_processing that leaves is_processing as it was.
processing_left_unset == FALSE

\* Line 87.
processing_when_started == TRUE

\* Lines 88-93: the values moved into the spawned closure.
spawned_thread(character_set, path, count, length) ==
    [IdleThread EXCEPT !.pc = "create", !.character_set = character_set,
                       !.file_path = path, !.token_count = count,
                       !.token_length = length]

Running == {t \in 1..MaxThreads : threads[t].pc # "idle"}

FreeSlots == (1..MaxThreads) \ Running

\* The Submit button (lines 215-220) is enabled only while is_processing is
\* false; a click calls start_processing.  The model holds at most MaxThreads
\* threads at a time.
Submit ==
    LET character_set == CurrentCharacterSet
        started == /\ ~is_processing
                   /\ ~start_refused(is_processing, file_path, character_set,
                                     ticket_length, ticket_count)
    IN  /\ started => FreeSlots # {}
        /\ IF started
           THEN LET t == CHOOSE s \in FreeSlots : \A u \in FreeSlots : s <= u
                IN  /\ threads' = [threads EXCEPT ![t] =
                           spawned_thread(character_set, file_path[1], ticket_count,
                                          ticket_length)]
                    /\ InboxRead(processing_when_started)
           ELSE /\ UNCHANGED threads
                /\ InboxRead(is_processing)
        /\ UNCHANGED <<form, files>>

\* A call of start_processing by itself (lines 69-100), in whatever state
\* the application is: an early return changes nothing; otherwise
\* is_processing is set and the thread is spawned.
start_processing ==
    LET character_set == CurrentCharacterSet IN
    IF start_refused(is_processing, file_path, character_set, ticket_length,
                     ticket_count)
    THEN UNCHANGED vars
    ELSE /\ FreeSlots # {}
         /\ LET t == CHOOSE s \in FreeSlots : \A u \in FreeSlots : s <= u
            IN  threads' = [threads EXCEPT ![t] =
                    spawned_thread(character_set, file_path[1], ticket_count,
                                   ticket_length)]
         /\ is_processing' = processing_when_started
         /\ UNCHANGED <<form, inbox, last_thread_message, files>>

\* A frame without interaction.
IdleFrame ==
    /\ InboxRead(is_processing)
    /\ UNCHANGED <<form, threads, files>>

(***************************************************************************)
(* csv::Writer as build_csv uses it (lines 117-128): write_record appends  *)
(* the record's text to the writer's buffer and writes the buffer out to   *)
(* the file when it is full; dropping the writer flushes the buffer and    *)
(* ignores the outcome.  The buffer's capacity is not modelled: any write  *)
(* of a record may find the non-empty buffer full.  The file is kept row   *)
(* by row: writing the buffer out either adds all its rows to the file or  *)
(* fails and adds none.                                                    *)
(***************************************************************************)
RECURSIVE double_quotes(_)
double_quotes(field) ==
    IF field = <<>> THEN <<>>
    ELSE (IF Head(field) = "\"" THEN <<"\"", "\"">> ELSE <<Head(field)>>)
         \o double_quotes(Tail(field))

needs_quotes(field) ==
    \/ field = <<>>
    \/ \E k \in 1..Len(field) : field[k] \in {",", "\"", "\n", "\r"}

\* The text of a record of one field.
csv_record(field) ==
    IF needs_quotes(field) THEN <<"\"">> \o double_quotes(field) \o <<"\"">>
    ELSE field

(***************************************************************************)
(* The worker thread (lines 93-99) running build_csv (lines 103-129).      *)
(***************************************************************************)
\* A loop that counts up to the form's ticket_count as it is now.
loop_head_of_form(th) ==
    IF th.i < ticket_count
    THEN [th EXCEPT !.pc = "gen"]
    ELSE [th EXCEPT !.pc = "drop", !.result = SuccessMessage]

\* The head of the for loop of line 119; leaving the loop is the Ok(()) of
\* line 128.
loop_head(th) ==
    IF th.i < th.token_count
    THEN [th EXCEPT !.pc = "gen"]
    ELSE [th EXCEPT !.pc = "drop", !.result = SuccessMessage]

\* A build_csv that goes on when File::create has failed.
Create_unchecked(t) ==
    LET th == threads[t] IN
    /\ th.pc = "create"
    /\ \/ /\ th.file_path \in WritablePaths
          /\ files' = [files EXCEPT ![th.file_path] = [exists |-> TRUE, rows |-> <<>>]]
       \/ UNCHANGED files
    /\ threads' = [threads EXCEPT ![t] = loop_head(th)]
    /\ UNCHANGED <<form, is_processing, inbox, last_thread_message>>

\* File::create (lines 109-110): creates or truncates the file, or fails; it
\* always fails for a path outside WritablePaths.
Create(t) ==
    LET th == threads[t] IN
    /\ th.pc = "create"
    /\ \/ /\ th.file_path \in WritablePaths
          /\ files' = [files EXCEPT ![th.file_path] = [exists |-> TRUE, rows |-> <<>>]]
          /\ threads' = [threads EXCEPT ![t] = loop_head(th)]
       \/ /\ threads' = [threads EXCEPT ![t] =
                 [th EXCEPT !.pc = "send", !.result = CreateFailedMessage(th.file_path)]]
          /\ UNCHANGED files
    /\ UNCHANGED <<form, is_processing, inbox, last_thread_message>>

\* A retry that keeps the rejected draw in the buffer.
carried_buf(previous) == previous

\* Line 137: every call of gen_token starts from an empty buffer.
new_buf(previous) == <<>>

\* A duplicate check that finds nothing.
contains_nothing(already_generated, buf) == FALSE

\* Line 144.
contains(already_generated, buf) == buf \in already_generated

\* The draws of one call of gen_token (lines 137-142): `choice` holds one
\* index into character_set per position of the token.  write_char on a
\* String does not fail, so the Err of line 141 is never returned.
draw(t, choice) ==
    LET th == threads[t]
        drawn == [k \in 1..th.token_length |-> th.character_set[choice[k]]]
    IN  /\ th.pc = "gen"
        /\ threads' = [threads EXCEPT ![t] =
               [th EXCEPT !.buf = new_buf(th.buf) \o drawn, !.pc = "check"]]
        /\ UNCHANGED <<form, is_processing, inbox, last_thread_message, files>>

Choices(th) == [1..th.token_length -> 1..Len(th.character_set)]

Draw(t) == \E choice \in Choices(threads[t]) : draw(t, choice)

\* Lines 144-148: a token that is already in the set leads to the recursive
\* call of line 145, a new one is returned to build_csv.
Check(t) ==
    LET th == threads[t] IN
    /\ th.pc = "check"
    /\ threads' = [threads EXCEPT ![t] =
           IF contains(th.set, th.buf)
           THEN [th EXCEPT !.pc = "gen", !.retried = TRUE]
           ELSE [th EXCEPT !.pc = "write", !.tokens = Append(th.tokens, th.buf)]]
    /\ UNCHANGED <<form, is_processing, inbox, last_thread_message, files>>

\* Lines 125-126 after a successful write_record: the token moves into the
\* set and the loop goes on.
record_written(th, writer) ==
    loop_head([th EXCEPT !.csv_writer = writer, !.set = th.set \cup {th.buf},
                         !.i = th.i + 1, !.buf = <<>>, !.retried = FALSE])

\* A write error that is recorded while the loop goes on.
write_failed_ignored(th) ==
    [th EXCEPT !.pc = "gen", !.result = WriteFailedMessage]

\* Line 123: the error is returned; the writer is dropped on the way out.
write_failed(th) ==
    [th EXCEPT !.pc = "drop", !.result = WriteFailedMessage]

\* write_record (lines 121-123): the record goes to the buffer; a full buffer
\* is written to the file first, which may fail.
WriteRecord(t) ==
    LET th == threads[t]
        file == files[th.file_path]
    IN  /\ th.pc = "write"
        /\ \/ /\ threads' = [threads EXCEPT ![t] =
                     record_written(th, Append(th.csv_writer, csv_record(th.buf)))]
              /\ UNCHANGED files
           \/ /\ th.csv_writer # <<>>
              /\ files' = [files EXCEPT ![th.file_path].rows = file.rows \o th.csv_writer]
              /\ threads' = [threads EXCEPT ![t] =
                     record_written(th, <<csv_record(th.buf)>>)]
           \/ /\ th.csv_writer # <<>>
              /\ threads' = [threads EXCEPT ![t] = write_failed(th)]
              /\ UNCHANGED files
        /\ UNCHANGED <<form, is_processing, inbox, last_thread_message>>

\* csv_writer goes out of scope (line 128 or the ? of line 123): its Drop
\* flushes the buffer and ignores the outcome, then the file is closed.
DropWriter(t) ==
    LET th == threads[t]
        file == files[th.file_path]
    IN  /\ th.pc = "drop"
        /\ \/ files' = [files EXCEPT ![th.file_path].rows = file.rows \o th.csv_writer]
           \/ /\ th.csv_writer # <<>>
              /\ UNCHANGED files
        /\ threads' = [threads EXCEPT ![t] = [th EXCEPT !.pc = "send", !.csv_writer = <<>>]]
        /\ UNCHANGED <<form, is_processing, inbox, last_thread_message>>

\* A thread that reports its result twice.
thread_messages_twice(result) == <<result, result>>

\* Lines 95-98: what the thread sends for the result of build_csv.
thread_messages(result) == <<result>>

\* tx.send, after which the thread ends.
Send(t) ==
    LET th == threads[t] IN
    /\ th.pc = "send"
    /\ inbox' = inbox \o thread_messages(th.result)
    /\ threads' = [threads EXCEPT ![t] = IdleThread]
    /\ UNCHANGED <<form, is_processing, last_thread_message, files>>

ThreadStep(t) ==
    \/ Create(t)
    \/ Draw(t)
    \/ Check(t)
    \/ WriteRecord(t)
    \/ DropWriter(t)
    \/ Send(t)

Frame ==
    \/ ToggleCapitalLetters
    \/ ToggleLowercaseLetters
    \/ ToggleNumbers
    \/ ToggleSpecials
    \/ EditRejectedChars
    \/ EditTicketCount
    \/ EditTicketLength
    \/ SelectDestination
    \/ Submit
    \/ IdleFrame

Next ==
    \/ Frame
    \/ \E t \in 1..MaxThreads : ThreadStep(t)

Spec == Init /\ [][Next]_vars


(***************************************************************************)
(* The application with start_processing called also by itself, at any     *)
(* time, and not only by the click on the enabled Submit button.           *)
(***************************************************************************)
NextCall ==
    \/ Next
    \/ start_processing

SpecCall == Init /\ [][NextCall]_vars

(***************************************************************************)
(* The character set alone: every combination of the class checkboxes with *)
(* a choice of exclusion strings, submitted once.                          *)
(***************************************************************************)
RejectedInputsCS ==
    {<<>>, <<"Q">>, <<"W">>, <<"q", ",">>, <<"A", "E", "I", "O", "U", "0">>,
     NUMBERS, ExcludeAllBut({"Q", "0", "1"})}

InitCS ==
    /\ capital_letters \in BOOLEAN
    /\ lowercase_letters \in BOOLEAN
    /\ numbers \in BOOLEAN
    /\ specials \in BOOLEAN
    /\ rejected_chars \in RejectedInputsCS
    /\ ticket_count = 1
    /\ ticket_length = 1
    /\ file_path \in {Some(p) : p \in Paths}
    /\ is_processing = FALSE
    /\ inbox = <<>>
    /\ last_thread_message = <<>>
    /\ threads = [t \in 1..MaxThreads |-> IdleThread]
    /\ files = [p \in Paths |-> NoFile]

NextCS == Submit

SpecCS == InitCS /\ [][NextCS]_vars

(***************************************************************************)
(* Runs on their own: the form holds a valid request and is not edited;    *)
(* the request is submitted, the thread runs, frames read the inbox, and   *)
(* the request may be submitted again.  The character set is "QQ", "01" or *)
(* the comma and the double quote of the specials.                         *)
(***************************************************************************)
InitRun ==
    /\ \E class \in {"capitals", "numbers", "specials"} :
           /\ capital_letters = (class = "capitals")
           /\ numbers = (class = "numbers")
           /\ specials = (class = "specials")
    /\ lowercase_letters = FALSE
    /\ rejected_chars = ExcludeAllBut({"Q", "0", "1", ",", "\""})
    /\ ticket_count \in 1..MaxCount
    /\ ticket_length \in 1..MaxLength
    /\ file_path \in {Some(p) : p \in Paths}
    /\ is_processing = FALSE
    /\ inbox = <<>>
    /\ last_thread_message = <<>>
    /\ threads = [t \in 1..MaxThreads |-> IdleThread]
    /\ files = [p \in Paths |-> NoFile]

NextRun ==
    \/ Submit
    \/ IdleFrame
    \/ \E t \in 1..MaxThreads : ThreadStep(t)

SpecRun == InitRun /\ [][NextRun]_vars

(***************************************************************************)
(* Fair scheduling: the thread keeps running, frames keep coming, and      *)
(* every draw of gen_token that is possible again and again is made again  *)
(* and again.                                                              *)
(***************************************************************************)
AllChoices == UNION {[1..l -> 1..MaxAlphabet] : l \in 1..MaxLength}

Fairness ==
    /\ WF_vars(IdleFrame)
    /\ \A t \in 1..MaxThreads :
        /\ WF_vars(Create(t))
        /\ WF_vars(WriteRecord(t))
        /\ WF_vars(DropWriter(t))
        /\ WF_vars(Send(t))
        /\ \A choice \in AllChoices :
               SF_vars(choice \in Choices(threads[t]) /\ draw(t, choice))
        /\ WF_vars(Check(t))

SpecFair == SpecRun /\ Fairness

(***************************************************************************)
(* Properties.                                                             *)
(***************************************************************************)
Distinct(s) == \A j, k \in 1..Len(s) : j # k => s[j] # s[k]

IsPrefix(a, b) == Len(a) <= Len(b) /\ a = SubSeq(b, 1, Len(a))

RECURSIVE Pow(_, _)
Pow(b, e) == IF e = 0 THEN 1 ELSE b * Pow(b, e - 1)

\* The text the file and the writer's buffer hold for a thread's run.
Output(th) == files[th.file_path].rows \o th.csv_writer

\* The thread has created its file.
Opened(th) ==
    \/ th.pc \in {"gen", "check", "write", "drop"}
    \/ th.pc = "send" /\ th.result # CreateFailedMessage(th.file_path)

\* The rows of the records whose write_record returned Ok.
WrittenRows(th) == [k \in 1..th.i |-> csv_record(th.tokens[k])]

\* C1: the rows written to the file in a run are pairwise distinct, and
\* gen_token never returns a token that is in the set of accepted tokens.
C1_RowsDistinct ==
    /\ \A p \in Paths : Distinct(files[p].rows)
    /\ \A t \in 1..MaxThreads :
        LET th == threads[t] IN
        /\ Distinct(th.tokens)
        /\ th.pc = "write" => th.buf \notin th.set
        /\ Opened(th) => Distinct(Output(th))

\* C1 witness: a token was returned after a rejected duplicate draw while a
\* row of the run is already written.
C1_Witness ==
    \E t \in 1..MaxThreads :
        /\ threads[t].pc = "write"
        /\ threads[t].retried
        /\ Len(Output(threads[t])) >= 1

\* C2: when build_csv has returned Ok (the success message is about to be
\* sent), the file holds exactly token_count rows.
C2_SuccessMeansAllRows ==
    \A t \in 1..MaxThreads :
        LET th == threads[t] IN
        (th.pc = "send" /\ th.result = SuccessMessage)
            => /\ files[th.file_path].exists
               /\ Len(files[th.file_path].rows) = th.token_count

Letters ==
    {"A", "B", "C", "D", "E", "F", "G", "H", "I", "J", "K", "L", "M",
     "N", "O", "P", "Q", "R", "S", "T", "U", "V", "W", "X", "Y", "Z"}

LowercaseLetters ==
    {"a", "b", "c", "d", "e", "f", "g", "h", "i", "j", "k", "l", "m",
     "n", "o", "p", "q", "r", "s", "t", "u", "v", "w", "x", "y", "z"}

\* C3: with capitals selected and nothing excluded the character set of a
\* run holds every letter A..Z, and with lowercase selected every a..z.
C3_AllLetters ==
    \A t \in 1..MaxThreads :
        (threads[t].pc # "idle" /\ rejected_chars = <<>>)
            => /\ capital_letters => Letters \subseteq Range(threads[t].character_set)
               /\ lowercase_letters => LowercaseLetters \subseteq Range(threads[t].character_set)

\* C4: the character set built for a run has no character at two positions.
C4_DistinctCharacters ==
    \A t \in 1..MaxThreads :
        threads[t].pc # "idle" => Distinct(threads[t].character_set)

\* C5: a run whose character set has at least token_count tokens of
\* token_length characters, counted by positions, ends and sends its message.
C5_RunEnds ==
    \A t \in 1..MaxThreads :
        (/\ threads[t].pc # "idle"
         /\ Pow(Len(threads[t].character_set), threads[t].token_length)
                >= threads[t].token_count)
            ~> (threads[t].pc = "idle")

\* C6: at most one worker thread is started and has not yet sent its message.
C6_AtMostOneRun == Cardinality(Running) <= 1

\* C6 witness: a run is in flight while the form holds a request that would
\* be accepted if no run were active.
C6_Witness ==
    /\ Cardinality(Running) = 1
    /\ ~start_refused(FALSE, file_path, CurrentCharacterSet, ticket_length, ticket_count)

InvalidRequest ==
    \/ ticket_count = 0
    \/ ticket_length = 0
    \/ CurrentCharacterSet = <<>>
    \/ file_path = None

\* C7: a Submit of an invalid request creates or truncates no file, starts
\* no thread, leaves is_processing false and the status line as it was, and
\* puts no message into the inbox.
C7_InvalidSubmitIsNoOp ==
    [][(Submit /\ InvalidRequest)
          => /\ files' = files
             /\ threads' = threads
             /\ Len(inbox') <= Len(inbox)
             /\ ~is_processing
                   => (~is_processing' /\ last_thread_message' = last_thread_message)]_vars

\* C7 witness: only the count is invalid, no run is active and the
\* destination is a file with rows from an earlier run.
C7_Witness ==
    /\ ~is_processing
    /\ ticket_count = 0 /\ ticket_length > 0
    /\ CurrentCharacterSet # <<>>
    /\ file_path # None
    /\ files[file_path[1]].rows # <<>>
    /\ ENABLED Submit

ThreadEnds(t) == threads[t].pc # "idle" /\ threads'[t].pc = "idle"

\* C8: the step that ends a run appends exactly one message to the inbox,
\* the success message exactly when build_csv completed its loop, and no
\* other step appends a message.
C8_OneMessagePerRun ==
    [][/\ Len(inbox') > Len(inbox) => \E t \in 1..MaxThreads : ThreadEnds(t)
       /\ \A t \in 1..MaxThreads :
            ThreadEnds(t)
                => /\ Len(inbox') = Len(inbox) + 1
                   /\ SubSeq(inbox', 1, Len(inbox)) = inbox
                   /\ (inbox'[Len(inbox')] = SuccessMessage)
                         <=> (threads[t].i = threads[t].token_count)
                   /\ inbox'[Len(inbox')] \in
                         {SuccessMessage, WriteFailedMessage,
                          CreateFailedMessage(threads[t].file_path)}]_vars

\* C8 witness: a run has ended and its message waits in the inbox.
C8_Witness == Running = {} /\ Len(inbox) = 1

\* C9 as stated: after a failed write the file holds exactly the rows of the
\* records written before the failure.
C9_FileHoldsWrittenRows ==
    \A t \in 1..MaxThreads :
        LET th == threads[t] IN
        (th.pc = "send" /\ th.result = WriteFailedMessage)
            => files[th.file_path].rows = WrittenRows(th)

\* C9 amended: after a failed write no further token is generated or
\* written, the run ends with the error, and the file holds a prefix of the
\* rows of the records written before the failure.
C9_FileHoldsPrefix ==
    \A t \in 1..MaxThreads :
        LET th == threads[t] IN
        th.result = WriteFailedMessage
            => /\ th.pc \in {"drop", "send"}
               /\ th.i < th.token_count
               /\ Len(th.tokens) = th.i + 1
               /\ Cardinality(th.set) = th.i
               /\ IsPrefix(files[th.file_path].rows, WrittenRows(th))
               /\ th.pc = "send" => th.csv_writer = <<>>

\* C9 witness: a run that failed on a write has returned, and rows written
\* before the failure are missing from the file.
C9_Witness ==
    \E t \in 1..MaxThreads :
        /\ threads[t].pc = "send"
        /\ threads[t].result = WriteFailedMessage
        /\ Len(files[threads[t].file_path].rows) < threads[t].i

\* C10: every token of a run, also one returned after rejected draws, has
\* exactly token_length characters, and the rows of the file are the records
\* of these tokens.
C10_TokenLength ==
    \A t \in 1..MaxThreads :
        LET th == threads[t] IN
        /\ \A k \in 1..Len(th.tokens) : Len(th.tokens[k]) = th.token_length
        /\ Opened(th)
              => \A k \in 1..Len(Output(th)) :
                     /\ k <= Len(th.tokens)
                     /\ Output(th)[k] = csv_record(th.tokens[k])

\* C10 witness: a token of more than one character was returned by a
\* recursive call of gen_token.
C10_Witness ==
    \E t \in 1..MaxThreads :
        /\ threads[t].pc = "write"
        /\ threads[t].retried
        /\ threads[t].token_length > 1

\* The characters of the classes whose checkbox is not set.
UnselectedCharacters ==
    UNION {(IF capital_letters THEN {} ELSE Range(CAPTIALS)),
           (IF lowercase_letters THEN {} ELSE Range(LOWERS)),
           (IF numbers THEN {} ELSE Range(NUMBERS)),
           (IF specials THEN {} ELSE Range(SPECIALS))}

\* C11: every character of every token a run returns, and so of every record
\* it writes, is a character of the character set built at submission; none
\* is a character of the exclusion string or of a class that is not selected.
\* (The form is not edited during these runs, so the form is the request.)
C11_TokenCharacters ==
    \A t \in 1..MaxThreads :
        LET th == threads[t] IN
        /\ th.pc # "idle" => th.character_set = CurrentCharacterSet
        /\ \A k \in 1..Len(th.tokens) :
               /\ Range(th.tokens[k]) \subseteq Range(th.character_set)
               /\ Range(th.tokens[k]) \cap Range(rejected_chars) = {}
               /\ Range(th.tokens[k]) \cap UnselectedCharacters = {}
        /\ Opened(th)
              => \A k \in 1..Len(Output(th)) :
                     \E token \in th.set \cup {th.buf} :
                         /\ Output(th)[k] = csv_record(token)
                         /\ Range(token) \subseteq Range(th.character_set)
                                               \ Range(rejected_chars)

\* C11 witness: a run with a non-empty exclusion string and unselected
\* classes has reported success and its tokens are in the file.
C11_Witness ==
    \E t \in 1..MaxThreads :
        /\ threads[t].pc = "send"
        /\ threads[t].result = SuccessMessage
        /\ Len(files[threads[t].file_path].rows) = threads[t].token_count
        /\ rejected_chars # <<>>
        /\ UnselectedCharacters # {}

(***************************************************************************)
(* Reading the file back.  The text of the file is its rows, each ended by *)
(* the record terminator the writer puts after a record; parse_csv reads a *)
(* text by the usual CSV rules: fields are separated by commas, records by *)
(* line ends, a field that starts with a double quote runs to the closing  *)
(* quote, and a doubled quote inside it stands for one quote.              *)
(***************************************************************************)
RECURSIVE file_text(_)
file_text(rows) ==
    IF rows = <<>> THEN <<>> ELSE Head(rows) \o <<"\n">> \o file_text(Tail(rows))

RECURSIVE parse_from(_, _, _, _, _)
parse_from(text, at, field, record, records) ==
    IF text = <<>>
    THEN IF at = "start" /\ record = <<>> THEN records
         ELSE Append(records, Append(record, field))
    ELSE LET c == Head(text)
             rest == Tail(text)
             end_field == parse_from(rest, "start", <<>>, Append(record, field), records)
             end_record ==
                 parse_from(rest, "start", <<>>, <<>>,
                            Append(records, Append(record, field)))
         IN  CASE at = "start" ->
                      IF c = "\"" THEN parse_from(rest, "quoted", <<>>, record, records)
                      ELSE IF c = "," THEN end_field
                      ELSE IF c = "\n"
                           THEN IF record = <<>>
                                THEN parse_from(rest, "start", <<>>, <<>>, records)
                                ELSE end_record
                      ELSE parse_from(rest, "unquoted", <<c>>, record, records)
               [] at = "unquoted" ->
                      IF c = "," THEN end_field
                      ELSE IF c = "\n" THEN end_record
                      ELSE parse_from(rest, "unquoted", Append(field, c), record, records)
               [] at = "quoted" ->
                      IF c = "\"" THEN parse_from(rest, "quote", field, record, records)
                      ELSE parse_from(rest, "quoted", Append(field, c), record, records)
               [] at = "quote" ->
                      IF c = "\""
                      THEN parse_from(rest, "quoted", Append(field, c), record, records)
                      ELSE IF c = "," THEN end_field
                      ELSE IF c = "\n" THEN end_record
                      ELSE parse_from(rest, "unquoted", Append(field, c), record, records)

parse_csv(text) == parse_from(text, "start", <<>>, <<>>, <<>>)

\* The records of one field each that hold the tokens.
Records(tokens) == [k \in 1..Len(tokens) |-> <<tokens[k]>>]

\* The records written so far, in the file or still in the writer, read back
\* as the tokens returned so far, in order.
WrittenRecordsReadBack ==
    \A t \in 1..MaxThreads :
        LET th == threads[t] IN
        Opened(th)
            => parse_csv(file_text(Output(th)))
                   = Records(SubSeq(th.tokens, 1, Len(Output(th))))

\* C12: when a run has reported success, reading its file by the CSV rules
\* gives exactly the tokens the run accepted, in the order of generation.
C12_RoundTrip ==
    \A t \in 1..MaxThreads :
        LET th == threads[t] IN
        (th.pc = "send" /\ th.result = SuccessMessage)
            => parse_csv(file_text(files[th.file_path].rows)) = Records(th.tokens)

\* The tokens of token_length characters over the character set, as a set:
\* a character that stands twice in the character set counts once.
DistinctTokens(th) == [1..th.token_length -> Range(th.character_set)]

\* A run that is asked for more tokens than there are distinct ones.
Starved(th) ==
    /\ th.pc # "idle"
    /\ Cardinality(DistinctTokens(th)) < th.token_count

\* The run has accepted every distinct token and is inside gen_token.
Exhausted(th) ==
    /\ Starved(th)
    /\ th.pc \in {"gen", "check"}
    /\ Cardinality(th.set) = Cardinality(DistinctTokens(th))

NeverDone(th) ==
    Starved(th)
        => /\ is_processing
           /\ th.i < th.token_count
           /\ th.result \in {<<>>, WriteFailedMessage, CreateFailedMessage(th.file_path)}
           /\ th.pc = "send" => th.result # <<>>
           /\ Cardinality(th.set) <= Cardinality(DistinctTokens(th))

Request(th) == <<th.character_set, th.file_path, th.token_count, th.token_length>>

\* What a run has done so far agrees with its request.
FollowsRequest(th) ==
    /\ th.i <= th.token_count
    /\ Len(th.tokens) <= th.token_count
    /\ th.result = SuccessMessage => th.i = th.token_count
    /\ \A k \in 1..Len(th.tokens) :
           /\ Len(th.tokens[k]) = th.token_length
           /\ Range(th.tokens[k]) \subseteq Range(th.character_set)
    /\ Opened(th) => /\ Len(Output(th)) <= th.token_count
                      /\ \A k \in 1..Len(Output(th)) :
                             Output(th)[k] = csv_record(th.tokens[k])

\* C14: the thread of a run holds the character set, destination, count and
\* length the form had at the Submit; a frame that edits the form changes no
\* thread and no file; while the thread runs its request does not change,
\* its tokens, rows and number of iterations follow that request, and only
\* the file of that request is written.
C14_RunFollowsCapturedRequest ==
    [][/\ form' # form => (threads' = threads /\ files' = files)
       /\ \A t \in 1..MaxThreads :
            /\ (threads[t].pc = "idle" /\ threads'[t].pc # "idle")
                  => /\ file_path # None
                     /\ Request(threads'[t]) =
                           <<CurrentCharacterSet, file_path[1], ticket_count, ticket_length>>
            /\ (threads[t].pc # "idle" /\ threads'[t].pc # "idle")
                  => Request(threads'[t]) = Request(threads[t])
            /\ threads'[t].pc # "idle" => FollowsRequest(threads[t])'
       /\ \A p \in Paths :
            files'[p] # files[p]
                => \E t \in 1..MaxThreads :
                       threads[t].pc # "idle" /\ threads[t].file_path = p]_vars

\* C14 witness: a run has completed its loop and its rows are in its file,
\* while the form by now shows another character set, count, length and
\* destination.
C14_Witness ==
    \E t \in 1..MaxThreads :
        LET th == threads[t] IN
        /\ th.pc = "send"
        /\ th.result = SuccessMessage
        /\ Len(files[th.file_path].rows) = th.token_count
        /\ CurrentCharacterSet # th.character_set
        /\ ticket_count # th.token_count
        /\ ticket_length # th.token_length
        /\ file_path # Some(th.file_path)

\* The class strings whose checkbox is set, in the order capitals, lowercase,
\* digits, specials.
SelectedClasses ==
    SelectSeq(<<<<capital_letters, CAPTIALS>>, <<lowercase_letters, LOWERS>>,
                <<numbers, NUMBERS>>, <<specials, SPECIALS>>>>,
              LAMBDA class : class[1])

RECURSIVE Concatenation(_)
Concatenation(classes) ==
    IF classes = <<>> THEN <<>>
    ELSE Head(classes)[2] \o Concatenation(Tail(classes))

\* `s` with the characters of `removed` taken out, one character at a time.
RECURSIVE Without(_, _)
Without(s, removed) ==
    IF s = <<>> THEN <<>>
    ELSE (IF Head(s) \in removed THEN <<>> ELSE <<Head(s)>>)
         \o Without(Tail(s), removed)

\* C15: the character set of the form, and of a run submitted from it, is
\* the concatenation of the selected class strings in the order capitals,
\* lowercase, digits, specials, without the characters of the exclusion
\* string and with the others in place; an empty exclusion string removes
\* nothing; an exclusion string that holds every character of a selected
\* class gives a character set shorter than the concatenation.
C15_CharacterSet ==
    LET unfiltered == Concatenation(SelectedClasses)
        excluded == Range(rejected_chars)
    IN  /\ CurrentCharacterSet = Without(unfiltered, excluded)
        /\ rejected_chars = <<>> => CurrentCharacterSet = unfiltered
        /\ \A k \in 1..Len(SelectedClasses) :
               Range(SelectedClasses[k][2]) \subseteq excluded
                   => Len(CurrentCharacterSet) < Len(unfiltered)
        /\ \A t \in 1..MaxThreads :
               threads[t].pc # "idle"
                   => threads[t].character_set = Without(unfiltered, excluded)

\* C15 witness: capitals and digits are selected, every digit is excluded,
\* and the run submitted has the capitals alone as its character set.
C15_Witness ==
    \E t \in 1..MaxThreads :
        /\ threads[t].pc # "idle"
        /\ capital_letters /\ numbers
        /\ rejected_chars = NUMBERS
        /\ threads[t].character_set = (IF lowercase_letters THEN CAPTIALS \o LOWERS ELSE CAPTIALS)
                                          \o (IF specials THEN SPECIALS ELSE <<>>)

\* The message is the one of a failed File::create and names `path`.
NamesFile(message, path) ==
    /\ Len(message) = 2
    /\ message[1] = "Failed to create file"
    /\ message[2] = path

\* The thread has drawn and written nothing.
NothingDone(th) ==
    /\ th.tokens = <<>> /\ th.buf = <<>> /\ th.set = {}
    /\ th.i = 0 /\ th.csv_writer = <<>>

\* C16: a run whose File::create fails goes from the create to the send in
\* one step, which changes no file; it has drawn no token and written no
\* row, also not later; it sends one message, which names its file, and
\* nothing else; the frame that reads this message shows it, sets
\* is_processing to false, and the request can be submitted again.  A run
\* whose file can never be created does nothing but this.
C16_CreateFailure ==
    [][/\ \A t \in 1..MaxThreads :
            LET th == threads[t] IN
            /\ (th.pc = "create" /\ threads'[t].pc = "send")
                  => /\ NamesFile(threads'[t].result, th.file_path)
                     /\ NothingDone(threads'[t])
                     /\ files' = files
                     /\ inbox' = inbox
            /\ (th.pc = "create" /\ threads'[t] # th)
                  => \/ threads'[t].pc = "send"
                     \/ /\ threads'[t].pc \in {"gen", "drop"}
                        /\ files'[th.file_path] = [exists |-> TRUE, rows |-> <<>>]
            /\ (th.pc = "send" /\ NamesFile(th.result, th.file_path))
                  => /\ NothingDone(th)
                     /\ files' = files
                     /\ threads'[t] # th
                           => /\ threads'[t].pc = "idle"
                              /\ inbox' = Append(inbox, th.result)
            /\ (th.pc # "idle" /\ th.file_path \notin WritablePaths)
                  => /\ th.pc \in {"create", "send"}
                     /\ NothingDone(th)
                     /\ files[th.file_path] = NoFile
                     /\ th.pc = "send" => NamesFile(th.result, th.file_path)
       /\ \A p \in Paths :
            (inbox # <<>> /\ NamesFile(inbox[Len(inbox)], p) /\ inbox' # inbox)
                => /\ inbox' = <<>>
                   /\ last_thread_message' = inbox[Len(inbox)]
                   /\ ~is_processing'
                   /\ Running' = {}
                   /\ ~start_refused(is_processing', file_path', CurrentCharacterSet',
                                      ticket_length', ticket_count')]_vars

\* C16 witness: the message of a failed create was read, no file was made,
\* and the request has been submitted again.
C16_Witness ==
    \E t \in 1..MaxThreads :
        /\ threads[t].pc = "create"
        /\ is_processing
        /\ NamesFile(last_thread_message, threads[t].file_path)
        /\ files[threads[t].file_path] = NoFile

\* A run is pending: its thread has not ended, or its message is unread.
Pending == Running # {} \/ inbox # <<>>

\* C17: while a thread runs or its message is unread, is_processing is true;
\* is_processing goes from true to false only in a frame that reads a
\* message from the inbox, which is the one message of the run that has set
\* it and has ended; and it goes from false to true only when a thread is
\* started.
C17_ProcessingWhilePending ==
    [][/\ Pending => is_processing
       /\ Pending' => is_processing'
       /\ (is_processing /\ ~is_processing')
            => /\ Len(inbox) = 1
               /\ inbox' = <<>>
               /\ last_thread_message' = inbox[1]
               /\ Running = {}
               /\ threads' = threads
       /\ (~is_processing /\ is_processing')
            => /\ Running = {}
               /\ Cardinality(Running') = 1]_vars

\* C17 witness: the thread of a second run has ended and its message, which
\* differs from the message of the first run, is not yet read.
C17_Witness ==
    /\ is_processing
    /\ Running = {}
    /\ Len(inbox) = 1
    /\ last_thread_message # <<>>
    /\ inbox[1] # last_thread_message

\* C18: a call of start_processing while is_processing is true changes
\* nothing: not is_processing, the form or the status line, no file (the
\* file of the active run is not created again or truncated), no thread (no
\* new request with a character set is made), and no message is sent.
C18_StartWhileProcessingIsNoOp ==
    [][(start_processing /\ is_processing)
          => /\ is_processing' = is_processing
             /\ form' = form
             /\ last_thread_message' = last_thread_message
             /\ files' = files
             /\ threads' = threads
             /\ inbox' = inbox]_vars

\* C18 witness: start_processing can be called while the thread of the
\* active run has its rows in the file the form still names, and the form
\* holds a request that would be accepted if no run were active.
C18_Witness ==
    /\ is_processing
    /\ ENABLED start_processing
    /\ ~start_refused(FALSE, file_path, CurrentCharacterSet, ticket_length, ticket_count)
    /\ \E t \in 1..MaxThreads :
           /\ threads[t].pc = "send"
           /\ threads[t].result = SuccessMessage
           /\ Some(threads[t].file_path) = file_path
           /\ files[threads[t].file_path].rows # <<>>

====
